---- MODULE Spec2Model ----
(***************************************************************************)
(* Model of multigtfs/models/base.py: the schema-driven import (Base.      *)
(* import_txt) and export (BaseQuerySet.export_txt) of GTFS text files.    *)
(*                                                                         *)
(* Text is a sequence of one-character strings, so that parsing and        *)
(* formatting are computed and not assumed.  A stored value is a tagged    *)
(* record: None, Txt(s), Bool(b), Date(y, m, d) or Ref(id).  The record    *)
(* store db maps a model name to the sequence of its rows; the primary key *)
(* of a row is its index.                                                  *)
(***************************************************************************)
EXTENDS Integers, Sequences, FiniteSets, TLC

VARIABLES db, pc, call, row, path, err, nrows, ret, rt, probe

vars == <<db, pc, call, row, path, err, nrows, ret, rt, probe>>

(***************************************************************************)
(* Bounds of the model.                                                    *)
(***************************************************************************)
\* rows read by import_txt from input files, over all calls
MaxRows == 2
\* the feeds of the store
Feeds == {1, 2}

(***************************************************************************)
(* Values.                                                                 *)
(***************************************************************************)
None == [t |-> "none"]
Txt(s) == [t |-> "text", s |-> s]
Bool(b) == [t |-> "bool", b |-> b]
Date(y, m, d) == [t |-> "date", y |-> y, m |-> m, d |-> d]
Ref(id) == [t |-> "ref", id |-> id]

Empty == <<>>
Digits == <<"0", "1", "2", "3", "4", "5", "6", "7", "8", "9">>

IsDigit(c) == \E n \in 1..10 : Digits[n] = c
DigitVal(c) == (CHOOSE n \in 1..10 : Digits[n] = c) - 1
DigitChar(n) == Digits[n + 1]

\* Python truthiness of a cell: None and '' are false
Truthy(value) == value # None /\ value # Txt(Empty)

IsLeap(y) == (y % 4 = 0 /\ y % 100 # 0) \/ y % 400 = 0
DaysIn(y, m) ==
  IF m = 2 THEN (IF IsLeap(y) THEN 29 ELSE 28)
  ELSE IF m \in {4, 6, 9, 11} THEN 30 ELSE 31

(***************************************************************************)
(* The schemas: field descriptors (what cls._meta.get_field_by_name        *)
(* returns) and the column maps.  A field pattern is held already split at *)
(* '__': <<field_name>> or <<field_name, rel_name>>.                       *)
(***************************************************************************)
Field(name, kind, to, null, blank, hasDefault, default) ==
  [name |-> name, kind |-> kind, to |-> to, null |-> null, blank |-> blank,
   hasDefault |-> hasDefault, default |-> default]

Models == {"Stop", "Calendar", "Trip", "Zone", "Service"}

Fields(cls) ==
  IF cls = "Stop" THEN
    { Field("stop_id", "CharField", "", FALSE, FALSE, FALSE, None),
      Field("zone", "ForeignKey", "Zone", TRUE, TRUE, FALSE, None),
      Field("desc", "CharField", "", FALSE, TRUE, FALSE, None) }
  ELSE IF cls = "Calendar" THEN
    { Field("start_date", "DateField", "", FALSE, FALSE, FALSE, None),
      Field("monday", "BooleanField", "", FALSE, TRUE, TRUE, Bool(FALSE)) }
  ELSE IF cls = "Trip" THEN
    { Field("trip_id", "CharField", "", FALSE, FALSE, FALSE, None),
      Field("services", "ManyToManyField", "Service", FALSE, TRUE, FALSE, None) }
  ELSE IF cls = "Zone" THEN
    { Field("zone_id", "CharField", "", FALSE, FALSE, FALSE, None) }
  ELSE
    { Field("service_id", "CharField", "", FALSE, FALSE, FALSE, None) }

_column_map(cls) ==
  IF cls = "Stop" THEN
    << <<"stop_id", <<"stop_id">> >>,
       <<"zone_id", <<"zone", "zone_id">> >>,
       <<"stop_desc", <<"desc">> >> >>
  ELSE IF cls = "Calendar" THEN
    << <<"start_date", <<"start_date">> >>,
       <<"monday", <<"monday">> >> >>
  ELSE IF cls = "Trip" THEN
    << <<"trip_id", <<"trip_id">> >>,
       <<"service_id", <<"services", "service_id">> >> >>
  ELSE IF cls = "Zone" THEN
    << <<"zone_id", <<"zone_id">> >> >>
  ELSE
    << <<"service_id", <<"service_id">> >> >>

_rel_to_feed(cls) == "feed"

get_field_by_name(cls, field_name) ==
  CHOOSE f \in Fields(cls) : f.name = field_name

has_default(field) == field.hasDefault
get_default(field) ==
  IF field.hasDefault THEN field.default
  ELSE IF field.null \/ field.kind # "CharField" THEN None
  ELSE Txt(Empty)

IsRel(field) == field.kind \in {"ForeignKey", "ManyToManyField"}
IsM2M(field) == field.kind = "ManyToManyField"

(***************************************************************************)
(* store operations of the Django ORM used by the code: Model.objects.     *)
(* create, get_or_create and the related manager's add.                    *)
(***************************************************************************)
FieldNames(cls) == {f.name : f \in Fields(cls)}

\* the row Model(**kwargs).save() stores: absent fields take their default,
\* a many-to-many field starts as the empty set
NewRow(cls, kwargs) ==
  [n \in FieldNames(cls) \cup {"feed"} |->
     IF n \in DOMAIN kwargs THEN kwargs[n]
     ELSE IF IsM2M(get_field_by_name(cls, n)) THEN {}
     ELSE get_default(get_field_by_name(cls, n))]

Matches(db_, cls, kwargs) ==
  {i \in 1..Len(db_[cls]) : \A n \in DOMAIN kwargs : db_[cls][i][n] = kwargs[n]}

create(db_, cls, kwargs) ==
  [db |-> [db_ EXCEPT ![cls] = Append(@, NewRow(cls, kwargs))],
   id |-> Len(db_[cls]) + 1, created |-> TRUE, err |-> ""]

get_or_create(db_, cls, kwargs) ==
  LET m == Matches(db_, cls, kwargs) IN
    IF Cardinality(m) = 1
      THEN [db |-> db_, id |-> CHOOSE i \in m : TRUE, created |-> FALSE, err |-> ""]
    ELSE IF m = {} THEN create(db_, cls, kwargs)
    ELSE [db |-> db_, id |-> 0, created |-> FALSE, err |-> "MultipleObjectsReturned"]

\* getattr(obj, field_name).add(value): set union.  What the store does with
\* add(None) is not fixed by the code: onNone is "raise" (the insert of a null
\* reference is rejected) or "store" (it is accepted).
add(db_, cls, id, field_name, value, onNone) ==
  IF value = None /\ onNone = "raise"
    THEN [db |-> db_, err |-> "IntegrityError"]
    ELSE [db |-> [db_ EXCEPT ![cls][id][field_name] = @ \cup {value}], err |-> ""]

(***************************************************************************)
(* import_txt: the conversion functions                                    *)
(***************************************************************************)
no_convert(value) == [val |-> value, err |-> ""]

\* date_convert with the format '%Y%d%m': day and month change places
date_convert_dm(value) ==
  LET s == value.s
      two(i) == DigitVal(s[i]) * 10 + DigitVal(s[i + 1])
      year == DigitVal(s[1]) * 1000 + DigitVal(s[2]) * 100 + two(3)
  IN IF value = None \/ Len(s) # 8 \/ \E i \in 1..Len(s) : ~IsDigit(s[i])
       THEN [val |-> None, err |-> "ValueError:date"]
     ELSE IF year >= 1 /\ two(7) \in 1..12 /\ two(5) \in 1..DaysIn(year, two(7))
       THEN [val |-> Date(year, two(7), two(5)), err |-> ""]
     ELSE [val |-> None, err |-> "ValueError:date"]

\* datetime.strptime(value, '%Y%m%d'), on text of at most eight characters
\* that is either eight digits or not a date at all
date_convert(value) ==
  LET s == value.s
      num(i, j) == IF j - i = 3
                     THEN DigitVal(s[i]) * 1000 + DigitVal(s[i + 1]) * 100
                          + DigitVal(s[i + 2]) * 10 + DigitVal(s[i + 3])
                     ELSE DigitVal(s[i]) * 10 + DigitVal(s[i + 1])
  IN IF value = None \/ Len(s) # 8 \/ \E i \in 1..Len(s) : ~IsDigit(s[i])
       THEN [val |-> None, err |-> "ValueError:date"]
     ELSE IF num(1, 4) >= 1 /\ num(5, 6) \in 1..12
             /\ num(7, 8) \in 1..DaysIn(num(1, 4), num(5, 6))
       THEN [val |-> Date(num(1, 4), num(5, 6), num(7, 8)), err |-> ""]
     ELSE [val |-> None, err |-> "ValueError:date"]

bool_convert(value) == [val |-> Bool(value = Txt(<<"1">>)), err |-> ""]

char_convert(value) ==
  [val |-> IF Truthy(value) THEN value ELSE Txt(Empty), err |-> ""]

null_convert(value) ==
  [val |-> IF Truthy(value) THEN value ELSE None, err |-> ""]

default_convert(field, value) ==
  [val |-> IF value = Txt(Empty) \/ value = None THEN get_default(field) ELSE value,
   err |-> ""]

\* get_instance: looks the related record up in the feed, or creates it
\* ([0] of the pair get_or_create returns)
instance_of(r) ==
  [db |-> r.db, val |-> IF r.err = "" THEN Ref(r.id) ELSE None, err |-> r.err]

\* get_instance that looks the related record up by rel_name alone, in
\* whatever feed it is
instance_convert_anyfeed(db_, field, feed, rel_name, value) ==
  IF Truthy(value)
    THEN IF Matches(db_, field.to, rel_name :> value) # {}
           THEN [db |-> db_, err |-> "",
                 val |-> Ref(CHOOSE i \in Matches(db_, field.to, rel_name :> value) : TRUE)]
           ELSE instance_of(create(db_, field.to,
                                   (_rel_to_feed(field.to) :> feed) @@ (rel_name :> value)))
    ELSE [db |-> db_, val |-> None, err |-> ""]

instance_convert(db_, field, feed, rel_name, value) ==
  IF Truthy(value)
    THEN instance_of(get_or_create(db_, field.to,
                       (_rel_to_feed(field.to) :> feed) @@ (rel_name :> value)))
    ELSE [db |-> db_, val |-> None, err |-> ""]

\* converter with the last two tests in the other order: the default is
\* looked at before the nullability
converter_defaultfirst(field) ==
  IF field.kind = "DateField" THEN "date_convert"
  ELSE IF field.kind = "BooleanField" THEN "bool_convert"
  ELSE IF field.kind = "CharField" THEN "char_convert"
  ELSE IF IsRel(field) THEN "instance_convert"
  ELSE IF has_default(field) THEN "default_convert"
  ELSE IF field.null THEN "null_convert"
  ELSE "no_convert"

\* the conversion function picked for a field (the if/elif chain)
converter(field) ==
  IF field.kind = "DateField" THEN "date_convert"
  ELSE IF field.kind = "BooleanField" THEN "bool_convert"
  ELSE IF field.kind = "CharField" THEN "char_convert"
  ELSE IF IsRel(field) THEN "instance_convert"
  ELSE IF field.null THEN "null_convert"
  ELSE IF has_default(field) THEN "default_convert"
  ELSE "no_convert"

\* val_map[csv_name](value) or m2m_map[csv_name](value)
convert(db_, field, feed, rel_name, value) ==
  LET c == converter(field)
      pure(r) == [db |-> db_, val |-> r.val, err |-> r.err]
  IN IF c = "date_convert" THEN pure(date_convert(value))
     ELSE IF c = "bool_convert" THEN pure(bool_convert(value))
     ELSE IF c = "char_convert" THEN pure(char_convert(value))
     ELSE IF c = "instance_convert"
       THEN instance_convert(db_, field, feed, rel_name, value)
     ELSE IF c = "null_convert" THEN pure(null_convert(value))
     ELSE IF c = "default_convert" THEN pure(default_convert(field, value))
     ELSE pure(no_convert(value))

(***************************************************************************)
(* import_txt: one pass of the loop over the rows of the file.  A row maps *)
(* the column names of the header to text; the columns are visited in      *)
(* header order.                                                           *)
(***************************************************************************)
ColumnNames(cls) == {_column_map(cls)[i][1] : i \in 1..Len(_column_map(cls))}
Entry(cls, column_name) ==
  _column_map(cls)[CHOOSE i \in 1..Len(_column_map(cls)) :
                     _column_map(cls)[i][1] = column_name]
\* the split of a field pattern at '__'
field_name_of(entry) == entry[2][1]
rel_name_of(entry) == IF Len(entry[2]) > 1 THEN entry[2][2] ELSE "None"
name_map(cls, column_name) == field_name_of(Entry(cls, column_name))

\* is_m2m: the column's converter is kept in m2m_map, not in val_map
in_m2m_map(cls, column_name) ==
  LET field == get_field_by_name(cls, name_map(cls, column_name))
  IN IsRel(field) /\ IsM2M(field)

NoKwargs == [n \in {} |-> None]
Put(kwargs, n, v) == [m \in DOMAIN kwargs \cup {n} |-> IF m = n THEN v ELSE kwargs[m]]

\* fields[name_map[column_name]] = ... or m2ms[name_map[column_name]] = ...
\* with r what the converter returned
store_value(r, field_name, is_m2m, fields, m2ms) ==
  IF r.err # ""
    THEN [db |-> r.db, fields |-> fields, m2ms |-> m2ms, err |-> r.err]
  ELSE IF ~is_m2m
    THEN [db |-> r.db, fields |-> Put(fields, field_name, r.val), m2ms |-> m2ms,
          err |-> ""]
  ELSE [db |-> r.db, fields |-> fields, m2ms |-> Put(m2ms, field_name, r.val),
        err |-> ""]

\* the body of "for column_name, value in row.items()": one column
convert_column(db_, cls, feed, column_name, value, fields, m2ms) ==
  IF column_name \notin ColumnNames(cls)
    THEN [db |-> db_, fields |-> fields, m2ms |-> m2ms,
          err |-> IF Truthy(value) THEN "ValueError:column" ELSE ""]
  ELSE store_value(convert(db_, get_field_by_name(cls, name_map(cls, column_name)),
                           feed, rel_name_of(Entry(cls, column_name)), value),
                   name_map(cls, column_name), in_m2m_map(cls, column_name),
                   fields, m2ms)

\* the loop over the columns of the row, from the i-th on; c is the state
\* after the columns before it
RECURSIVE convert_row(_, _, _, _, _, _)
convert_row(c, cls, feed, header, row_, i) ==
  IF c.err # "" \/ i > Len(header) THEN c
  ELSE convert_row(convert_column(c.db, cls, feed, header[i], row_[header[i]],
                                  c.fields, c.m2ms),
                   cls, feed, header, row_, i + 1)

\* for field_name, value in m2ms.items(): getattr(obj, field_name).add(value)
AnyKey(m2ms) == CHOOSE n \in DOMAIN m2ms : TRUE
Without(m2ms, n) == [m \in DOMAIN m2ms \ {n} |-> m2ms[m]]
RECURSIVE add_all(_, _, _, _, _)
add_all(a, cls, id, m2ms, onNone) ==
  IF a.err # "" \/ DOMAIN m2ms = {} THEN a
  ELSE add_all(add(a.db, cls, id, AnyKey(m2ms), m2ms[AnyKey(m2ms)], onNone),
               cls, id, Without(m2ms, AnyKey(m2ms)), onNone)

\* obj, created = cls.objects.get_or_create(**fields), then the adds
add_m2ms(g, cls, m2ms, onNone) ==
  add_all([db |-> g.db, err |-> g.err], cls, g.id, m2ms, onNone)

\* save_row that goes through get_or_create whether or not m2ms is empty
save_row_dedup(c, cls, onNone) ==
  IF c.err # "" THEN [db |-> c.db, err |-> c.err, path |-> "raise"]
  ELSE [path |-> IF DOMAIN c.m2ms # {} THEN "get_or_create" ELSE "create"]
       @@ add_m2ms(get_or_create(c.db, cls, c.fields), cls, c.m2ms, onNone)

\* "if m2ms: ... else: cls.objects.create(**fields)", with c what the loop
\* over the columns left
save_row(c, cls, onNone) ==
  IF c.err # "" THEN [db |-> c.db, err |-> c.err, path |-> "raise"]
  ELSE IF DOMAIN c.m2ms # {}
    THEN [path |-> "get_or_create"]
         @@ add_m2ms(get_or_create(c.db, cls, c.fields), cls, c.m2ms, onNone)
  ELSE [db |-> create(c.db, cls, c.fields).db, err |-> "", path |-> "create"]

\* the body of "for row in reader"
import_row(db_, cls, feed, header, row_, onNone) ==
  save_row(convert_row([db |-> db_,
                        fields |-> IF _rel_to_feed(cls) = "feed"
                                     THEN Put(NoKwargs, "feed", feed) ELSE NoKwargs,
                        m2ms |-> NoKwargs, err |-> ""],
                       cls, feed, header, row_, 1),
           cls, onNone)

\* import_txt over a whole file: the rows from the i-th on; r is the state
\* after the rows before it
RECURSIVE import_rows(_, _, _, _, _, _, _)
import_rows(r, cls, feed, header, rows, i, onNone) ==
  IF r.err # "" \/ i > Len(rows) THEN r
  ELSE import_rows(import_row(r.db, cls, feed, header, rows[i], onNone),
                   cls, feed, header, rows, i + 1, onNone)

import_txt(db_, cls, feed, header, rows, onNone) ==
  import_rows([db |-> db_, err |-> "", path |-> "none"], cls, feed, header, rows, 1,
              onNone)

(***************************************************************************)
(* export_txt                                                              *)
(***************************************************************************)
\* objects.in_feed(feed): the primary keys of the records of the feed
in_feed(db_, cls, feed) ==
  {i \in 1..Len(db_[cls]) : db_[cls][i][_rel_to_feed(cls)] = feed}

\* field.value_to_string(None): the text of the field's default
value_to_string_None(field) ==
  IF get_default(field) = None THEN Txt(<<"N", "o", "n", "e">>)
  ELSE get_default(field)

\* self.exclude(**{field_name: blank}).exists()
exclude_exists(db_, cls, qs, field_name, blank) ==
  \E i \in qs : db_[cls][i][field_name] # blank

\* export_column that keeps every column, used or not
export_column_all(db_, cls, qs, i, acc) ==
  [csv_names |-> Append(acc.csv_names, _column_map(cls)[i]),
   evaluated |-> acc.evaluated + 1]

\* the body of the loop over the column map, for its i-th entry: the
\* (csv_name, field_pattern) pairs kept so far, and the entries looked at
export_column(db_, cls, qs, i, acc) ==
  LET e == _column_map(cls)[i]
      field == get_field_by_name(cls, field_name_of(e))
      blank == IF field.null THEN None ELSE value_to_string_None(field)
      keep == [csv_names |-> Append(acc.csv_names, e), evaluated |-> acc.evaluated + 1]
      skip == [csv_names |-> acc.csv_names, evaluated |-> acc.evaluated + 1]
  IN IF field.blank /\ ~has_default(field)
       THEN IF exclude_exists(db_, cls, qs, field.name, blank) THEN keep ELSE skip
       ELSE keep

RECURSIVE export_columns(_, _, _, _, _)
export_columns(db_, cls, qs, i, acc) ==
  IF i > Len(_column_map(cls)) THEN acc
  ELSE export_columns(db_, cls, qs, i + 1, export_column(db_, cls, qs, i, acc))

\* the text of one value, as create_csv writes it
RECURSIVE digits(_, _)
digits(n, width) ==
  IF width = 0 THEN <<>>
  ELSE Append(digits(n \div 10, width - 1), DigitChar(n % 10))

serialize(db_, field, rel_name, value) ==
  IF value = None THEN Txt(Empty)
  ELSE IF value.t = "bool" THEN (IF value.b THEN Txt(<<"1">>) ELSE Txt(Empty))
  ELSE IF value.t = "date"
    THEN Txt(digits(value.y, 4) \o digits(value.m, 2) \o digits(value.d, 2))
  ELSE IF value.t = "ref" THEN db_[field.to][value.id][rel_name]
  ELSE value

\* queryset.order_by('id')
MinId(qs) == CHOOSE m \in qs : \A k \in qs : m <= k
RECURSIVE SortedIds(_)
SortedIds(qs) ==
  IF qs = {} THEN <<>> ELSE <<MinId(qs)>> \o SortedIds(qs \ {MinId(qs)})

\* create_csv(queryset, csv_names): the header and one row per record
create_csv(db_, cls, qs, csv_names) ==
  LET ids == SortedIds(qs)
      header == [k \in 1..Len(csv_names) |-> csv_names[k][1]]
      cell(i, column_name) ==
        LET e == Entry(cls, column_name)
            field == get_field_by_name(cls, field_name_of(e))
        IN serialize(db_, field, rel_name_of(e), db_[cls][i][field.name])
  IN [header |-> header,
      rows |-> [k \in 1..Len(ids) |->
                  [c \in {header[j] : j \in 1..Len(header)} |-> cell(ids[k], c)]]]

NoFile == [header |-> <<>>, rows |-> <<>>]

\* return create_csv(self, csv_names), with c what the loop left
export_file(db_, cls, qs, c) ==
  [file |-> TRUE, csv_names |-> c.csv_names,
   csv |-> create_csv(db_, cls, qs, c.csv_names), evaluated |-> c.evaluated]

\* export_txt without the "if not self.exists(): return"
export_txt_noguard(db_, cls, qs) ==
  export_file(db_, cls, qs,
    export_columns(db_, cls, qs, 1, [csv_names |-> <<>>, evaluated |-> 0]))

\* export_txt: file is FALSE when the method returns None; evaluated is the
\* number of column map entries it looked at
export_txt(db_, cls, qs) ==
  IF qs = {}
    THEN [file |-> FALSE, csv_names |-> <<>>, csv |-> NoFile, evaluated |-> 0]
    ELSE export_file(db_, cls, qs,
           export_columns(db_, cls, qs, 1, [csv_names |-> <<>>, evaluated |-> 0]))

(***************************************************************************)
(* The input files: the headers a file may have and the text of its cells. *)
(***************************************************************************)
Headers(cls) ==
  IF cls = "Stop" THEN
    { <<"stop_id", "zone_id", "stop_desc">>, <<"zone_id", "stop_url", "stop_id">> }
  ELSE IF cls = "Calendar" THEN
    { <<"start_date", "monday">> }
  ELSE
    { <<"trip_id">>, <<"trip_id", "service_id">> }

Cells(column_name) ==
  IF column_name = "stop_id" THEN {Txt(<<"S">>)}
  ELSE IF column_name = "zone_id" THEN {Txt(Empty), Txt(<<"Z">>)}
  ELSE IF column_name = "stop_desc" THEN {Txt(Empty), Txt(<<"d">>)}
  ELSE IF column_name = "start_date"
    THEN {Txt(<<"2", "0", "1", "2", "0", "3", "0", "4">>),
          Txt(<<"2", "0", "1", "3", "0", "2", "2", "9">>),
          Txt(<<"1", "/", "2", "/", "1", "2">>)}
  ELSE IF column_name = "monday" THEN {Txt(<<"1">>), Txt(<<"0">>)}
  ELSE IF column_name = "trip_id" THEN {Txt(<<"R">>), Txt(<<"Q">>)}
  ELSE IF column_name = "service_id" THEN {Txt(Empty), Txt(<<"A">>), Txt(<<"B">>)}
  ELSE {Txt(Empty), Txt(<<"x">>)}

ColumnsOf(header) == {header[i] : i \in 1..Len(header)}
Rows(header) ==
  {r \in [ColumnsOf(header) -> UNION {Cells(c) : c \in ColumnsOf(header)}] :
     \A c \in ColumnsOf(header) : r[c] \in Cells(c)}

Imported == {"Stop", "Calendar", "Trip"}
Exported == {"Stop", "Calendar"}

(***************************************************************************)
(* The state machine.  pc is the position of the caller: "idle", inside    *)
(* the row loop of import_txt ("importing"), or left import_txt by an      *)
(* exception ("raised").                                                   *)
(***************************************************************************)
NoCall == [cls |-> "", feed |-> 0, header |-> <<>>]
NoRow == [c \in {} |-> None]
NoReturn ==
  [cls |-> "", feed |-> 0, file |-> FALSE, csv_names |-> <<>>, csv |-> NoFile,
   evaluated |-> 0]
NoProbe == [field |-> None, value |-> None, converter |-> "", val |-> None, err |-> ""]
NoRT == [cls |-> "", src |-> 0, dst |-> 0, err |-> ""]

Init ==
  /\ db = [m \in Models |-> <<>>]
  /\ pc = "idle"
  /\ call = NoCall
  /\ row = NoRow
  /\ path = "none"
  /\ err = ""
  /\ nrows = 0
  /\ ret = NoReturn
  /\ rt = NoRT
  /\ probe = NoProbe

\* Model.import_txt(txt_file, feed) is called and builds its maps
StartImport(cls, feed, header) ==
  /\ pc # "importing"
  /\ nrows < MaxRows
  /\ pc' = "importing"
  /\ call' = [cls |-> cls, feed |-> feed, header |-> header]
  /\ row' = NoRow
  /\ path' = "none"
  /\ err' = ""
  /\ ret' = NoReturn
  /\ rt' = NoRT
  /\ UNCHANGED <<db, nrows, probe>>

\* RowDone with the exception of a row swallowed: the loop goes on
RowDone_continue(r, row_) ==
  /\ db' = r.db
  /\ row' = row_
  /\ path' = r.path
  /\ err' = r.err
  /\ pc' = "importing"

\* one pass of "for row in reader": r is what the body of the loop did
RowDone(r, row_) ==
  /\ db' = r.db
  /\ row' = row_
  /\ path' = r.path
  /\ err' = r.err
  /\ pc' = IF r.err = "" THEN "importing" ELSE "raised"

ImportRow ==
  /\ pc = "importing"
  /\ nrows < MaxRows
  /\ \E row_ \in Rows(call.header), onNone \in {"raise", "store"} :
       RowDone(import_row(db, call.cls, call.feed, call.header, row_, onNone), row_)
  /\ nrows' = nrows + 1
  /\ UNCHANGED <<call, ret, rt, probe>>

\* the reader is exhausted and import_txt returns
EndImport ==
  /\ pc = "importing"
  /\ pc' = "idle"
  /\ call' = NoCall
  /\ row' = NoRow
  /\ path' = "none"
  /\ UNCHANGED <<db, err, nrows, ret, rt, probe>>

\* Model.objects.in_feed(feed).export_txt()
Returned(r, cls, feed) ==
  ret' = [cls |-> cls, feed |-> feed, file |-> r.file, csv_names |-> r.csv_names,
          csv |-> r.csv, evaluated |-> r.evaluated]

Export(cls, feed) ==
  /\ pc = "idle"
  /\ ret = NoReturn
  /\ Returned(export_txt(db, cls, in_feed(db, cls, feed)), cls, feed)
  /\ pc' = "idle"
  /\ call' = NoCall
  /\ row' = NoRow
  /\ path' = "none"
  /\ err' = ""
  /\ rt' = NoRT
  /\ UNCHANGED <<db, nrows, probe>>

\* the text of the last export is imported into a feed that holds nothing
ReImported(r, dst) ==
  /\ db' = r.db
  /\ rt' = [cls |-> ret.cls, src |-> ret.feed, dst |-> dst, err |-> r.err]

ReImport(dst) ==
  /\ pc = "idle"
  /\ ret.file
  /\ rt = NoRT
  /\ \A m \in Models : in_feed(db, m, dst) = {}
  /\ \E onNone \in {"raise", "store"} :
       ReImported(import_txt(db, ret.cls, dst, ret.csv.header, ret.csv.rows, onNone),
                  dst)
  /\ UNCHANGED <<pc, call, row, path, err, nrows, ret, probe>>

Next ==
  \/ \E cls \in Imported, feed \in Feeds : \E header \in Headers(cls) :
       StartImport(cls, feed, header)
  \/ ImportRow
  \/ EndImport
  \/ \E cls \in Exported, feed \in Feeds : Export(cls, feed)
  \/ \E dst \in Feeds : ReImport(dst)

Spec == Init /\ [][Next]_vars

(***************************************************************************)
(* Properties of import_txt.                                               *)
(***************************************************************************)
\* a step of ImportRow: a row was read
RowStep == pc = "importing" /\ nrows' = nrows + 1
\* the header of the call holds a many-to-many column of its model
HasM2MColumn(cls, header) ==
  \E i \in 1..Len(header) : header[i] \in ColumnNames(cls) /\ in_m2m_map(cls, header[i])
\* the kwargs of the single-valued cells of a row of Trip
TripFields(feed, row_) == ("feed" :> feed) @@ ("trip_id" :> row_["trip_id"])
\* the Service records a relation cell resolves to
Resolved(db_, feed, cell) ==
  IF cell = Txt(Empty) THEN {}
  ELSE {Ref(i) : i \in Matches(db_, "Service",
                               ("feed" :> feed) @@ ("service_id" :> cell))}
ServicesOf(db_, ids) == UNION {db_["Trip"][i]["services"] : i \in ids}

\* C1: a row with a many-to-many column that is imported maps to exactly one
\* record with its single-valued field values, and that record's relation set
\* is what it was before (empty for a new record) joined with the related
\* records the row's relation cell resolves to.
C1_GetOrCreateUnion ==
  [][(RowStep /\ err' = "" /\ call.cls = "Trip" /\ "service_id" \in DOMAIN row')
       => /\ Cardinality(Matches(db', "Trip", TripFields(call.feed, row'))) = 1
          /\ ServicesOf(db', Matches(db', "Trip", TripFields(call.feed, row')))
               = ServicesOf(db, Matches(db, "Trip", TripFields(call.feed, row')))
                   \cup Resolved(db', call.feed, row'["service_id"])]_vars

\* C2: when a row raises the unexpected-column error, the store is what it was
\* before the row was read.
C2_NoPartialCommit ==
  [][(RowStep /\ err' = "ValueError:column") => db' = db]_vars

C7_RowOnly == err = "ValueError:date" => pc = "importing"

\* C7 as amended: a date that cannot be parsed makes import_txt raise: the row
\* adds no record to its model, the records of the rows before stay, and once
\* import_txt has raised no further row is read and the store stays as it is.
C7_AbortsFile ==
  [][/\ (RowStep /\ err' = "ValueError:date")
          => (pc' = "raised" /\ db'[call.cls] = db[call.cls])
     /\ pc = "raised" => (db' = db /\ nrows' = nrows)]_vars

\* a date raised after an earlier row of the same file was stored
C7_Witness ==
  /\ pc = "raised" /\ err = "ValueError:date"
  /\ in_feed(db, "Calendar", call.feed) # {}

\* C10: no relation set ever holds a null reference, and a row whose relation
\* cell is empty takes the create path.
C10_EmptyCellNoContribution ==
  /\ \A i \in 1..Len(db["Trip"]) : None \notin db["Trip"][i]["services"]
  /\ ("service_id" \in DOMAIN row /\ path \in {"create", "get_or_create"})
       => (row["service_id"] = Txt(Empty) => path = "create")

\* the feed a step writes to: the feed of the import_txt call
Dest == IF pc = "importing" THEN call.feed ELSE rt'.dst
\* every reference of a record points into the record's own feed
RefsInFeed(db_) ==
  /\ \A i \in 1..Len(db_["Stop"]) :
       db_["Stop"][i]["zone"] # None
         => db_["Zone"][db_["Stop"][i]["zone"].id]["feed"] = db_["Stop"][i]["feed"]
  /\ \A i \in 1..Len(db_["Trip"]) : \A r \in db_["Trip"][i]["services"] \ {None} :
       db_["Service"][r.id]["feed"] = db_["Trip"][i]["feed"]
\* at most one related record for a feed and a lookup text
UniqueKeys(db_) ==
  \A m \in {"Zone", "Service"} : \A i, j \in 1..Len(db_[m]) :
    db_[m][i] = db_[m][j] => i = j
\* the related record of a stored row is the one its relation cell names
CellResolved(db_, feed, row_) ==
  /\ ("zone_id" \in DOMAIN row_ /\ row_["zone_id"] # Txt(Empty))
       => LET z == db_["Stop"][Len(db_["Stop"])]["zone"]
          IN /\ z # None
             /\ db_["Zone"][z.id] = [feed |-> feed, zone_id |-> row_["zone_id"]]
  /\ ("service_id" \in DOMAIN row_ /\ row_["service_id"] # Txt(Empty))
       => \E i \in Matches(db_, "Trip", TripFields(feed, row_)) :
            \E r \in db_["Trip"][i]["services"] \ {None} :
              db_["Service"][r.id] = [feed |-> feed, service_id |-> row_["service_id"]]

\* C9: a step that writes to the store leaves the records of every feed but
\* the destination feed as they were, gives every new record the destination
\* feed, keeps every reference inside the feed of the record that holds it and
\* keeps the related records unique per feed and lookup text; the related
\* record of an imported row has the cell's text as its lookup field.
C9_FeedIsolation ==
  [][db' # db
       => /\ \A m \in Models :
               /\ Len(db'[m]) >= Len(db[m])
               /\ \A i \in 1..Len(db[m]) :
                    db[m][i]["feed"] # Dest => db'[m][i] = db[m][i]
               /\ \A i \in (Len(db[m]) + 1)..Len(db'[m]) : db'[m][i]["feed"] = Dest
          /\ RefsInFeed(db')
          /\ UniqueKeys(db')
          /\ (RowStep /\ err' = "") => CellResolved(db', call.feed, row')]_vars

\* the same zone text was resolved in both feeds, each stop to its own feed's
C9_Witness ==
  /\ \E i, j \in 1..Len(db["Zone"]) :
       /\ db["Zone"][i]["feed"] # db["Zone"][j]["feed"]
       /\ db["Zone"][i]["zone_id"] = db["Zone"][j]["zone_id"]
  /\ \E i \in 1..Len(db["Stop"]) :
       db["Stop"][i]["feed"] = 2 /\ db["Stop"][i]["zone"] # None

(***************************************************************************)
(* Properties of export_txt.                                               *)
(***************************************************************************)
Optional(field) == field.blank /\ ~field.hasDefault
IsBlank(v) == v = None \/ v = Txt(Empty)
Kept(k) == \E j \in 1..Len(ret.csv_names) : ret.csv_names[j] = _column_map(ret.cls)[k]
MapIndex(e) ==
  CHOOSE k \in 1..Len(_column_map(ret.cls)) : _column_map(ret.cls)[k] = e

C4_EmptyExport ==
  ret.cls # ""
    => IF in_feed(db, ret.cls, ret.feed) = {}
         THEN ~ret.file /\ ret.evaluated = 0
         ELSE ret.file /\ ret.evaluated = Len(_column_map(ret.cls))

\* no file for a feed without records of the model, which has some in another
C4_Witness ==
  /\ ret.cls # "" /\ ~ret.file
  /\ in_feed(db, ret.cls, ret.feed) = {}
  /\ Len(db[ret.cls]) > 0

\* the field values of the records of a feed, in the order of their keys
ValuesIn(db_, cls, feed) ==
  [k \in 1..Cardinality(in_feed(db_, cls, feed)) |->
     [n \in FieldNames(cls) |-> db_[cls][SortedIds(in_feed(db_, cls, feed))[k]][n]]]
OnlyAlwaysExported(db_, cls, feed) ==
  \A i \in in_feed(db_, cls, feed) : \A f \in Fields(cls) :
    Optional(f) => IsBlank(db_[cls][i][f.name])

\* C5: when the export of a feed whose records hold values in always-exported
\* fields only is imported into an empty feed, the import raises nothing and
\* the new feed holds as many records with the same field values.
C5_RoundTrip ==
  (rt.cls # "" /\ OnlyAlwaysExported(db, rt.cls, rt.src))
    => /\ rt.err = ""
       /\ ValuesIn(db, rt.cls, rt.dst) = ValuesIn(db, rt.cls, rt.src)

\* two calendar records, one with a true flag, went through the round trip
C5_Witness ==
  /\ rt.cls = "Calendar"
  /\ Cardinality(in_feed(db, "Calendar", rt.src)) = 2
  /\ \E i \in in_feed(db, "Calendar", rt.src) : db["Calendar"][i]["monday"] = Bool(TRUE)
  /\ \E i \in in_feed(db, "Calendar", rt.dst) : db["Calendar"][i]["monday"] = Bool(FALSE)

(***************************************************************************)
(* The conversion functions on their own: a field descriptor and a text    *)
(* are drawn, and the converter import_txt picks for the field is applied. *)
(***************************************************************************)
ProbeDefault(kind) ==
  IF kind = "DateField" THEN Date(2000, 1, 1)
  ELSE IF kind = "BooleanField" THEN Bool(TRUE)
  ELSE IF kind = "CharField" THEN Txt(<<"k">>)
  ELSE IF kind = "IntegerField" THEN Txt(<<"7">>)
  ELSE None
ProbeFields ==
  {Field("f", kind, IF kind = "ForeignKey" THEN "Zone" ELSE "", null, blank, hasDefault,
         IF hasDefault THEN ProbeDefault(kind) ELSE None) :
     kind \in {"DateField", "BooleanField", "CharField", "IntegerField", "ForeignKey"},
     null \in BOOLEAN, blank \in BOOLEAN, hasDefault \in BOOLEAN}
ProbeValues ==
  {Txt(Empty), Txt(<<"1">>), Txt(<<"2", "0", "1", "2", "0", "3", "0", "4">>)}

Probed(r, field, value) ==
  probe' = [field |-> field, value |-> value, converter |-> converter(field),
            val |-> r.val, err |-> r.err]

Probe(field, value) ==
  /\ Probed(convert(db, field, 1, "zone_id", value), field, value)
  /\ UNCHANGED <<db, pc, call, row, path, err, nrows, ret, rt>>

NextConv == \E field \in ProbeFields, value \in ProbeValues : Probe(field, value)

SpecConv == Init /\ [][NextConv]_vars

\* C8 as claimed: for a nullable field that is no relation, whatever its kind,
\* empty text converts to null and other text to itself; for a field with a
\* default that is not nullable, empty text converts to the default.
C8_NullAndDefault ==
  probe.converter # ""
    => /\ (probe.field.null /\ ~IsRel(probe.field))
            => /\ probe.err = ""
               /\ probe.val = IF probe.value = Txt(Empty) THEN None ELSE probe.value
       /\ (probe.field.hasDefault /\ ~probe.field.null /\ probe.value = Txt(Empty))
            => (probe.err = "" /\ probe.val = probe.field.default)

\* C8 as amended: the kind of the field is looked at first.  A date field
\* raises on empty text, a boolean field converts text to whether it is "1",
\* a string-like field converts empty text to the empty string, each whatever
\* its nullability and default.  Of the other fields that are no relation, a
\* nullable one converts empty text to null, one with a default that is not
\* nullable converts it to the default, and both pass other text through.
C8_KindFirst ==
  probe.converter # ""
    => /\ probe.field.kind = "DateField"
            => (probe.value = Txt(Empty) => probe.err = "ValueError:date")
       /\ probe.field.kind = "BooleanField"
            => probe.val = Bool(probe.value = Txt(<<"1">>))
       /\ probe.field.kind = "CharField" => probe.val = probe.value
       /\ probe.field.kind = "IntegerField"
            => /\ probe.err = ""
               /\ probe.value # Txt(Empty) => probe.val = probe.value
               /\ (probe.value = Txt(Empty) /\ probe.field.null) => probe.val = None
               /\ (probe.value = Txt(Empty) /\ ~probe.field.null
                     /\ probe.field.hasDefault)
                    => probe.val = probe.field.default

\* empty text was converted for a nullable field with a default that is
\* neither date, boolean, string-like nor relation
C8_Witness ==
  /\ probe.converter = "null_convert"
  /\ probe.field.hasDefault
  /\ probe.value = Txt(Empty)
  /\ probe.val = None

====
